---- MODULE Spec2Model ----
(***************************************************************************)
(* A model of the ST_Geometry blob decoder of the mobile_geodatabase       *)
(* package (src/src/mobile_geodatabase/decoder.py).                        *)
(*                                                                         *)
(* A blob is a sequence of bytes (0..255), indexed from 0 by `pos` as in   *)
(* the Python code (blob[pos] is written blob[pos + 1] here).              *)
(*                                                                         *)
(* Python integers are unbounded and raw coordinates exceed 10^11, which   *)
(* does not fit TLC's 32-bit integers.  Every integer that is read from a  *)
(* blob is therefore kept exactly, as a two-limb number                    *)
(*     [hi |-> h, lo |-> l]  standing for  h * 2^28 + l,  0 <= l < 2^28,   *)
(* with h signed (floor representation), so that no value is scaled down   *)
(* and COORD_THRESHOLD keeps the value it has in the source.               *)
(***************************************************************************)
EXTENDS Integers, Sequences, FiniteSets, TLC

(***************************************************************************)
(* Two-limb integers                                                       *)
(***************************************************************************)
LIMB == 2^28

W(h, l) == [hi |-> h, lo |-> l]

ToWide(n) == W(n \div LIMB, n % LIMB)

WZero == W(0, 0)

WAdd(a, b) == W(a.hi + b.hi + ((a.lo + b.lo) \div LIMB), (a.lo + b.lo) % LIMB)

\* -a
WNeg(a) == IF a.lo = 0 THEN W(-a.hi, 0) ELSE W(-a.hi - 1, LIMB - a.lo)

WSub(a, b) == WAdd(a, WNeg(b))

WGt(a, b) == a.hi > b.hi \/ (a.hi = b.hi /\ a.lo > b.lo)

WLt(a, b) == WGt(b, a)

WGe(a, b) == ~WGt(b, a)

\* a >> 1 (a >= 0)
WShr1(a) == W(a.hi \div 2, (a.lo \div 2) + (a.hi % 2) * (LIMB \div 2))

\* a >> 7 (a >= 0)
WShr7(a) == W(a.hi \div 128, (a.lo \div 128) + (a.hi % 128) * (LIMB \div 128))

\* g << shift, for a 7-bit group g and a shift that is a multiple of 7
WShl(g, shift) == IF shift < 28 THEN W(0, g * 2^shift) ELSE W(g * 2^(shift - 28), 0)

\* a XOR -1, i.e. the bitwise complement of a in two's complement: -a - 1
WXorMinusOne(a) == WSub(WNeg(a), W(0, 1))

RECURSIVE WSum(_)
WSum(s) == IF s = <<>> THEN WZero ELSE WAdd(Head(s), WSum(Tail(s)))

(***************************************************************************)
(* Program constants                                                       *)
(***************************************************************************)
MAGIC == <<100, 17, 15, 0>>

\* 100_000_000_000 = 372 * 2^28 + 142010368
COORD_THRESHOLD == W(372, 142010368)

MAX_PART_INFO == 10000

MAX_NUM_PARTS == 10000

POINT_BLOB_LEN == 30

POINT_COORD_POS == 18

HEADER_LEN == 8

COMPLEX_START == 8

POLYGON_BASE_TYPE == 8

DefaultCS ==
    [x_origin |-> -20037700, y_origin |-> -30241100, xy_scale |-> 10000,
     z_origin |-> -100000, z_scale |-> 10000, srid |-> "None", wkt |-> "None"]

\* mutant of effective_xy_scale: the configured scale, not doubled
effective_xy_scale_undoubled(c) == c.xy_scale

\* CoordinateSystem.effective_xy_scale
effective_xy_scale(c) == c.xy_scale * 2

(***************************************************************************)
(* Pure functions of the decoder                                           *)
(***************************************************************************)
\* mutant of read_varint_loop: the shift is not advanced
RECURSIVE read_varint_loop_no_shift(_, _, _, _)
read_varint_loop_no_shift(data, offset, result, shift) ==
    IF offset < Len(data)
    THEN LET byte == data[offset + 1]
             r2 == WAdd(result, WShl(byte % 128, shift))
         IN  IF byte \div 128 = 0
             THEN [value |-> r2, offset |-> offset + 1]
             ELSE read_varint_loop_no_shift(data, offset + 1, r2, shift)
    ELSE [value |-> result, offset |-> offset]

\* The loop of read_varint: `result` and `shift` are its locals.
RECURSIVE read_varint_loop(_, _, _, _)
read_varint_loop(data, offset, result, shift) ==
    IF offset < Len(data)
    THEN LET byte == data[offset + 1]
             \* result |= (byte & 0x7F) << shift : the bits are disjoint
             r2 == WAdd(result, WShl(byte % 128, shift))
         IN  IF byte \div 128 = 0
             THEN [value |-> r2, offset |-> offset + 1]
             ELSE CHOOSE r \in {read_varint_loop(data, offset + 1, acc, shift + 7) :
                                  acc \in {r2}} : TRUE
    ELSE [value |-> result, offset |-> offset]

read_varint(data, offset) ==
    CHOOSE r \in {read_varint_loop(data, start, WZero, 0) : start \in {offset}} :
        TRUE

\* mutant of zigzag_decode: the sign bit is dropped
zigzag_decode_unsigned(n) == WShr1(n)

\* (n >> 1) ^ -(n & 1)
zigzag_decode(n) ==
    IF n.lo % 2 = 0 THEN WShr1(n) ELSE WXorMinusOne(WShr1(n))

\* raw / scale + origin is a float in the code; it is kept here as the
\* unevaluated quotient [num / den + add] so that no rounding is modelled.
raw_to_coord(c, raw_x, raw_y) ==
    <<[num |-> raw_x, den |-> effective_xy_scale(c), add |-> c.x_origin],
      [num |-> raw_y, den |-> effective_xy_scale(c), add |-> c.y_origin]>>

\* struct.unpack("<I", blob[4:8])[0]
unpack_u32(blob) ==
    W(blob[8] \div 16,
      blob[5] + blob[6] * 256 + blob[7] * 65536 + (blob[8] % 16) * 16777216)

(***************************************************************************)
(* Input blobs.  The canonical base-128 encoder builds well-formed blobs   *)
(* from varint values; the decoder below only ever sees the bytes.         *)
(***************************************************************************)
MaxN == 4

MaxPairs == 4

MaxPartInfoLen == 3

MaxPartValue == 3

MaxCut == 1
\* the small deltas of the zigzag inputs are -MaxZigzag..MaxZigzag
MaxZigzag == 4
\* a decoder is called at most MaxCalls + 1 times
MaxCalls == 2

RECURSIVE EncodeVarint(_)
EncodeVarint(w) ==
    IF w.hi = 0 /\ w.lo < 128
    THEN <<w.lo>>
    ELSE <<(w.lo % 128) + 128>> \o EncodeVarint(WShr7(w))

RECURSIVE EncodeAll(_)
EncodeAll(ws) ==
    IF ws = <<>> THEN <<>> ELSE EncodeVarint(Head(ws)) \o EncodeAll(Tail(ws))

\* the 32-bit little-endian point count, for n < 2^24
U32LE(n) == <<n % 256, (n \div 256) % 256, n \div 65536, 0>>

\* raw coordinates of the Point scenario of the spec (section 8, scenario 1)
FirstX == W(512, 256062465)

FirstY == W(2697, 135161250)

\* the i-th pair of a coordinate stream, by kind: "A" has v1 > T, "D" has
\* v1 <= T; the second varint is large or small independently of the first
PairOf(kind, i) ==
    IF kind = "A"
    THEN <<W(513, i), IF i % 2 = 1 THEN W(2697, 7 * i) ELSE W(0, 5000 + i)>>
    ELSE <<W(0, 200 + 2 * i), IF i % 2 = 1 THEN W(0, 99) ELSE W(400, 2 * i)>>

RECURSIVE StreamOf(_, _)
StreamOf(kinds, i) ==
    IF kinds = <<>> THEN <<>>
    ELSE PairOf(Head(kinds), i) \o StreamOf(Tail(kinds), i + 1)

\* size hint, geometry flags, bounding box, part info, first coordinate, pairs
ComplexBlob(n, flags, pinfo, stream) ==
    MAGIC \o U32LE(n)
    \o EncodeAll(<<W(0, 300), W(0, flags)>>)
    \o EncodeAll(<<W(512, 0), W(0, 0), W(514, 0), W(2698, 0)>>)
    \o EncodeAll(pinfo) \o EncodeAll(<<FirstX, FirstY>>) \o EncodeAll(stream)

WideSeq(s) == [k \in 1..Len(s) |-> W(0, s[k])]

SeqsUpTo(S, n) == UNION {[1..k -> S] : k \in 0..n}

Cut(b, c) == SubSeq(b, 1, Len(b) - c)

KindSeqs == SeqsUpTo({"A", "D"}, MaxPairs)

PartInfos == SeqsUpTo(0..MaxPartValue, MaxPartInfoLen)

\* a prefix that states num_parts and exactly that many counts summing to n
ExactStructure(pi, n) ==
    /\ Len(pi) >= 2
    /\ pi[1] = Len(pi) - 1
    /\ WSum(WideSeq(Tail(pi))) = W(0, n)

AllDeltas(n) == [k \in 1..n |-> "D"]

\* part-info prefixes of every shape, followed by a plain delta stream
PartInfoBlobs ==
    {ComplexBlob(n, f, WideSeq(pi), StreamOf(AllDeltas(n - 1), 1)) :
        n \in 1..MaxN, f \in {4, 8}, pi \in PartInfos}

\* coordinate streams of every shape, complete, short or cut, after a prefix
\* that declares no structure or an exact one
StreamBlobs ==
    UNION {{Cut(ComplexBlob(n, 4, WideSeq(pi), StreamOf(ks, 1)), c) :
                c \in 0..MaxCut, ks \in KindSeqs,
                pi \in {q \in PartInfos : q = <<>> \/ ExactStructure(q, n)}} :
           n \in 1..MaxN}

\* the 30-byte point layout: ten opaque bytes, then two 6-byte varints
PointBlobs ==
    {MAGIC \o U32LE(1) \o [k \in 1..10 |-> o] \o EncodeAll(<<FirstX, FirstY>>) :
        o \in {0, 255}}

\* headers: every prefix of a good or bad magic followed by a count
HeaderBlobs ==
    {SubSeq(m \o U32LE(n), 1, k) :
        m \in {MAGIC, <<100, 17, 15, 1>>}, n \in 0..1, k \in 0..8}

\* the seed scenarios 2-5 of the spec (section 8)
ScenarioBlobs ==
    { ComplexBlob(3, 4, <<W(0, 0)>>,
                  <<W(0, 200), W(0, 99), W(0, 49), W(0, 50)>>),
      ComplexBlob(4, 4, <<W(0, 0)>>, StreamOf(<<"D", "A", "A", "D">>, 1)),
      ComplexBlob(10, 8, WideSeq(<<2, 5, 5, 0>>),
                  StreamOf(<<"D", "D", "D", "D", "A", "D", "D", "D", "D">>, 1)),
      ComplexBlob(4, 4, WideSeq(<<3, 1, 1, 1>>), StreamOf(AllDeltas(3), 1)) }

\* b with its byte at index k (from 1) replaced by v
WithByte(b, k, v) == [b EXCEPT ![k] = v]

\* well-formed blobs of every path with one byte of the magic changed
BadMagicBlobs ==
    {WithByte(b, k, v) :
        b \in ScenarioBlobs \cup PointBlobs, k \in 1..4, v \in {1, 255}}

\* well-formed blobs of every path with the point count set to 0
ZeroCountBlobs ==
    {SubSeq(b, 1, 4) \o U32LE(0) \o SubSeq(b, 9, Len(b)) :
        b \in ScenarioBlobs \cup PointBlobs}

\* a complex blob whose header is followed by k small varints: a 0, then
\* k - 1 varints of bytes `small`
LongBlob(k, small, tail) ==
    MAGIC \o U32LE(2)
    \o EncodeAll(<<W(0, 300), W(0, 4)>>)
    \o EncodeAll(<<W(512, 0), W(0, 0), W(514, 0), W(2698, 0)>>)
    \o <<0>>
    \o [i \in 1..((k - 1) * Len(small)) |-> small[((i - 1) % Len(small)) + 1]]
    \o tail

\* runs of one less than the limit, of the limit and of one more, of one-byte
\* and two-byte small varints, followed by a coordinate and a pair or by
\* nothing
LongCases ==
    {[k |-> k, blob |-> LongBlob(k, small, tail)] :
        k \in {MAX_PART_INFO - 1, MAX_PART_INFO, MAX_PART_INFO + 1},
        small \in {<<0>>, <<127>>, <<128, 1>>},
        tail \in {<<>>, EncodeAll(<<FirstX, FirstY, W(0, 200), W(0, 99)>>)}}

LongBlobs == {c.blob : c \in LongCases}

\* two-point blobs of one part and of two parts under flags of every kind:
\* base type 8 and others, with and without bits above the low four, in one
\* byte and in two
FlagBlobs ==
    {ComplexBlob(2, f, pi, <<W(0, 200), W(0, 99)>>) :
        f \in {0, 1, 4, 8, 12, 20, 24, 132, 136, 260, 264, 392},
        pi \in {<<W(0, 0)>>, WideSeq(<<2, 1, 1>>)}}

\* neighbours of the point blobs: 30 bytes with a count of 2, and a count of
\* 1 with one byte less or one byte more
NearPointBlobs ==
    {SubSeq(MAGIC \o U32LE(n) \o [k \in 1..10 |-> o]
            \o EncodeAll(<<FirstX, FirstY>>) \o <<0>>, 1, len) :
        n \in 1..2, o \in {0, 127}, len \in 29..31}

\* zigzag encoding of a signed k: (k << 1) ^ (k >> 63)
ZigzagEncode(k) ==
    IF k.hi < 0 THEN WSub(WNeg(WAdd(k, k)), W(0, 1)) ELSE WAdd(k, k)

\* signed deltas: the small ones, and large ones of both signs around the
\* limb boundary and near 2^54 and 2^57
ZigzagDeltas ==
    {ToWide(i) : i \in (-MaxZigzag)..MaxZigzag}
    \cup {W(0, LIMB - 1), W(1, 0), W(1, 1), W(2^26, 5), W(2^29, LIMB - 1)}
    \cup {WNeg(W(0, LIMB - 1)), WNeg(W(1, 0)), WNeg(W(1, 1)), WNeg(W(2^26, 5)),
          WNeg(W(2^29, LIMB - 1))}

\* two-point lines whose only pair is a delta pair: dy is any of the deltas,
\* dx the same delta when its encoding is at most the threshold, else 0
ZigzagCases ==
    {[dx |-> IF WGt(ZigzagEncode(k), COORD_THRESHOLD) THEN WZero ELSE k,
      dy |-> k,
      blob |-> ComplexBlob(2, 4, <<W(0, 0)>>,
                 <<IF WGt(ZigzagEncode(k), COORD_THRESHOLD)
                   THEN WZero ELSE ZigzagEncode(k),
                   ZigzagEncode(k)>>)] :
        k \in ZigzagDeltas}

ZigzagBlobs == {c.blob : c \in ZigzagCases}

\* two-point lines with overlong varints, i.e. padded with zero groups: the
\* size hint 300 in three bytes, a part-info 0 or 1 in two, a delta in three
OverlongBlobs ==
    {MAGIC \o U32LE(2) \o hint \o <<4>>
     \o EncodeAll(<<W(512, 0), W(0, 0), W(514, 0), W(2698, 0)>>)
     \o pi \o EncodeAll(<<FirstX, FirstY>>) \o dx \o <<99>> :
        hint \in {<<172, 2>>, <<172, 130, 0>>},
        pi \in {<<0>>, <<128, 0>>, <<129, 0>>},
        dx \in {<<200, 1>>, <<200, 129, 0>>}}

InputBlobs ==
    PartInfoBlobs \cup StreamBlobs \cup PointBlobs \cup HeaderBlobs \cup ScenarioBlobs
    \cup BadMagicBlobs \cup ZeroCountBlobs \cup FlagBlobs \cup NearPointBlobs
    \cup ZigzagBlobs \cup OverlongBlobs

CustomCS ==
    [x_origin |-> 0, y_origin |-> 0, xy_scale |-> 5000,
     z_origin |-> -100000, z_scale |-> 10000, srid |-> "None", wkt |-> "None"]

\* the blobs that are also decoded by a decoder built with CustomCS
CustomCSBlobs == PointBlobs \cup HeaderBlobs \cup ScenarioBlobs

(***************************************************************************)
(* State: the decoder (its coordinate system), the blob being decoded, the *)
(* locals of decode / _decode_complex, the position in the code (pc), and  *)
(* the outcome: the geometry returned or the ValueError raised.            *)
(***************************************************************************)
VARIABLES cs, blob, pc, pos, point_count, geom_flags, bbox, part_info,
          x_raw, y_raw, num_parts, points_per_part, parts, curr_x, curr_y,
          part_idx, current_part, points_to_read, iter, prev_was_absolute,
          pending_coord, result, err,
          calls,
          definition, rows, conn, open_conns, opened, tables, decoders,
          gen, features, last_op,
          feature, big_endian, to_wgs84, wkb, geojson

vars == <<cs, blob, pc, pos, point_count, geom_flags, bbox, part_info,
          x_raw, y_raw, num_parts, points_per_part, parts, curr_x, curr_y,
          part_idx, current_part, points_to_read, iter, prev_was_absolute,
          pending_coord, result, err, calls,
          definition, rows, conn, open_conns, opened, tables, decoders,
          gen, features, last_op,
          feature, big_endian, to_wgs84, wkb, geojson>>

\* what a decode call cannot reach: `calls` is the record of the calls the
\* decoder has completed, as (blob, result, error)
outside_decode ==
    <<calls, definition, rows, conn, open_conns, opened, tables, decoders,
      gen, features, last_op, feature, big_endian, to_wgs84, wkb, geojson>>

\* the converters: the Feature given, the big_endian and to_wgs84 arguments,
\* and what to_wkb and feature_to_geojson returned
conv_vars == <<feature, big_endian, to_wgs84, wkb, geojson>>

\* what a converter has not returned yet
NoOutput == [type |-> "no output"]

NoConversion ==
    /\ feature = [geometry |-> [type |-> "None"], attributes |-> <<>>,
                  fid |-> <<>>]
    /\ big_endian = FALSE
    /\ to_wgs84 = FALSE
    /\ wkb = <<>>
    /\ geojson = NoOutput

\* the state of a GeoDatabase and of the file it reads: the Definition of the
\* table's GDB_Items row and the rows of the table (the file), _conn, the
\* connections open, the number opened so far, _tables, _decoders, the
\* running read_table generator, the features it has yielded, and the last
\* operation called
gdb_vars ==
    <<definition, rows, conn, open_conns, opened, tables, decoders, gen,
      features, last_op>>

\* a Definition: whether GDB_Items has a row for the table, whether the
\* row's Definition holds text, and the text after each tag: <<>> when the
\* tag is absent, <<v>> for the number v
DefinitionOf(has_row, has_xml, xo, yo, xys, zo, zs) ==
    [row |-> has_row, xml |-> has_xml, XOrigin |-> xo, YOrigin |-> yo,
     XYScale |-> xys, ZOrigin |-> zo, ZScale |-> zs]

NoDefinition == DefinitionOf(FALSE, FALSE, <<>>, <<>>, <<>>, <<>>, <<>>)

\* self._tables: None until loaded, then the list of TableInfo
TablesNotLoaded == [loaded |-> FALSE, list |-> <<>>]

\* no read_table generator was made
NoGenerator ==
    [pc |-> "none", name |-> "", limit |-> <<>>, conn |-> 0, cursor |-> <<>>,
     returned |-> <<>>, row |-> <<>>, error |-> "none"]

NoDatabase ==
    /\ definition = NoDefinition
    /\ rows = <<>>
    /\ conn = 0
    /\ open_conns = {}
    /\ opened = 0
    /\ tables = TablesNotLoaded
    /\ decoders = FALSE
    /\ gen = NoGenerator
    /\ features = <<>>
    /\ last_op = [op |-> "none", ok |-> TRUE]

header_locals == <<point_count, geom_flags, bbox, part_info, x_raw, y_raw>>

part_locals == <<num_parts, points_per_part, parts, curr_x, curr_y, part_idx,
                 current_part, points_to_read, iter, prev_was_absolute,
                 pending_coord>>

\* Python's None
None == <<>>

NoGeometry == [type |-> "None"]

NoError == "none"

\* the state of a decoder on entry to decode, whatever blob it is given
FreshLocals ==
    /\ pos = 0
    /\ point_count = WZero
    /\ geom_flags = WZero
    /\ bbox = <<>>
    /\ part_info = <<>>
    /\ x_raw = WZero
    /\ y_raw = WZero
    /\ num_parts = 1
    /\ points_per_part = <<>>
    /\ parts = <<>>
    /\ curr_x = WZero
    /\ curr_y = WZero
    /\ part_idx = 0
    /\ current_part = <<>>
    /\ points_to_read = WZero
    /\ iter = 0
    /\ prev_was_absolute = FALSE
    /\ pending_coord = None
    /\ result = NoGeometry
    /\ err = NoError

OnEntry == pc = "decode" /\ FreshLocals

Init ==
    /\ \/ cs = DefaultCS /\ blob \in InputBlobs
       \/ cs = CustomCS /\ blob \in CustomCSBlobs
    /\ OnEntry
    /\ calls = <<>>
    /\ NoDatabase
    /\ NoConversion

Raise(message) ==
    /\ err' = message
    /\ pc' = "done"

\* Python's b[:n]
slice_to(b, n) == SubSeq(b, 1, IF n < Len(b) THEN n ELSE Len(b))

\* mutant of header_error: only the first three bytes of the magic are compared
header_error_short_magic(b) ==
    IF Len(b) < HEADER_LEN THEN "Blob too short"
    ELSE IF slice_to(b, 3) # SubSeq(MAGIC, 1, 3) THEN "Invalid magic header"
    ELSE NoError

\* mutant of header_error: the magic is compared before the length
header_error_magic_first(b) ==
    IF slice_to(b, 4) # MAGIC THEN "Invalid magic header"
    ELSE IF Len(b) < HEADER_LEN THEN "Blob too short"
    ELSE NoError

\* the checks decode makes before it reads the point count, in their order:
\* the message of the ValueError raised, or NoError
header_error(b) ==
    IF Len(b) < HEADER_LEN THEN "Blob too short"
    ELSE IF slice_to(b, 4) # MAGIC THEN "Invalid magic header"
    ELSE NoError

\* mutant of is_empty_geometry: a zero count is let through
is_empty_geometry_never(n) == FALSE

\* `point_count == 0`
is_empty_geometry(n) == n = WZero

\* decode: the checks of the shared prefix and the choice of the path
Decode ==
    /\ pc = "decode"
    /\ IF header_error(blob) # NoError
       THEN Raise(header_error(blob)) /\ UNCHANGED point_count
       ELSE /\ point_count' = unpack_u32(blob)
            /\ IF is_empty_geometry(point_count')
               THEN Raise("Empty geometry (point count = 0)")
               ELSE IF point_count' = W(0, 1) /\ Len(blob) = POINT_BLOB_LEN
               THEN pc' = "decode_point" /\ UNCHANGED err
               ELSE pc' = "decode_complex" /\ UNCHANGED err
    /\ UNCHANGED outside_decode
    /\ UNCHANGED <<cs, blob, pos, geom_flags, bbox, part_info, x_raw, y_raw, result>>
    /\ UNCHANGED part_locals

\* _decode_point
DecodePoint ==
    /\ pc = "decode_point"
    /\ LET rx == read_varint(blob, POINT_COORD_POS)
           ry == read_varint(blob, rx.offset)
           xy == raw_to_coord(cs, rx.value, ry.value)
       IN  /\ x_raw' = rx.value
           /\ y_raw' = ry.value
           /\ pos' = ry.offset
           /\ result' = [type |-> "Point", x |-> xy[1], y |-> xy[2], z |-> None]
    /\ pc' = "done"
    /\ UNCHANGED outside_decode
    /\ UNCHANGED <<cs, blob, point_count, geom_flags, bbox, part_info, err>>
    /\ UNCHANGED part_locals

\* _decode_complex: size hint, geometry flags and bounding box
ReadHeader ==
    /\ pc = "decode_complex"
    /\ LET size_hint == read_varint(blob, COMPLEX_START)
           flags == read_varint(blob, size_hint.offset)
           xmin == read_varint(blob, flags.offset)
           ymin == read_varint(blob, xmin.offset)
           xmax == read_varint(blob, ymin.offset)
           ymax == read_varint(blob, xmax.offset)
       IN  /\ geom_flags' = flags.value
           /\ bbox' = <<xmin.value, ymin.value, xmax.value, ymax.value>>
           /\ pos' = ymax.offset
    /\ part_info' = <<>>
    /\ x_raw' = WZero
    /\ pc' = "part_info"
    /\ UNCHANGED outside_decode
    /\ UNCHANGED <<cs, blob, point_count, y_raw, result, err>>
    /\ UNCHANGED part_locals

\* mutant of part_info_runaway: the list may not reach the limit either
part_info_runaway_at_limit(pinfo) == Len(pinfo) >= MAX_PART_INFO

\* `len(part_info) > 10000`
part_info_runaway(pinfo) == Len(pinfo) > MAX_PART_INFO

\* at most 2^level iterations of the loop that looks for the first X
\* coordinate: "found" after the break, "runaway" at the raise, "end" when the
\* bytes are used up, "more" when iterations are left
RECURSIVE scan_some(_, _, _, _)
scan_some(data, offset, pinfo, level) ==
    IF level = 0
    THEN IF offset >= Len(data)
         THEN [status |-> "end", offset |-> offset, part_info |-> pinfo,
               x_raw |-> WZero]
         ELSE LET r == read_varint(data, offset)
                  longer == Append(pinfo, r.value)
              IN  IF WGt(r.value, COORD_THRESHOLD)
                  THEN [status |-> "found", offset |-> r.offset,
                        part_info |-> pinfo, x_raw |-> r.value]
                  ELSE [status |-> IF part_info_runaway(longer)
                                   THEN "runaway" ELSE "more",
                        offset |-> r.offset, part_info |-> longer,
                        x_raw |-> WZero]
    ELSE CHOOSE whole \in
             {IF half.status = "more"
              THEN scan_some(data, half.offset, half.part_info, level - 1)
              ELSE half : half \in {scan_some(data, offset, pinfo, level - 1)}} :
             TRUE

\* the whole loop: it ends within MAX_PART_INFO + 1 < 2^14 iterations
scan_part_info(data, offset) == scan_some(data, offset, <<>>, 14)

\* the loop that looks for the first X coordinate
ReadPartInfo ==
    /\ pc = "part_info"
    /\ \E s \in {scan_part_info(blob, pos)} :
           /\ pos' = s.offset
           /\ part_info' = s.part_info
           /\ x_raw' = s.x_raw
           /\ IF s.status = "runaway"
              THEN Raise("Could not find coordinate start")
              ELSE pc' = "first_y" /\ UNCHANGED err
    /\ UNCHANGED outside_decode
    /\ UNCHANGED <<cs, blob, point_count, geom_flags, bbox, y_raw, result>>
    /\ UNCHANGED part_locals

\* mutant of counts_valid: the sum of the counts is not compared with n
counts_valid_no_sum(pinfo, n) ==
    /\ WLt(WZero, pinfo[1])
    /\ WLt(pinfo[1], ToWide(MAX_NUM_PARTS))
    /\ WGt(ToWide(Len(pinfo)), pinfo[1])

\* has_valid_structure and counts_valid, for a non-empty part_info
counts_valid(pinfo, n) ==
    LET potential_num_parts == pinfo[1]
        has_valid_structure ==
            /\ WLt(WZero, potential_num_parts)
            /\ WLt(potential_num_parts, ToWide(MAX_NUM_PARTS))
            /\ WGt(ToWide(Len(pinfo)), potential_num_parts)
    IN  /\ has_valid_structure
        /\ LET potential_counts == SubSeq(pinfo, 2, potential_num_parts.lo + 1)
           IN  /\ potential_counts # <<>>
               /\ \A k \in 1..Len(potential_counts) : WGe(potential_counts[k], WZero)
               /\ WSum(potential_counts) = n

\* num_parts as determined from part_info
structure_num_parts(pinfo, n) ==
    IF pinfo # <<>> /\ counts_valid(pinfo, n) THEN pinfo[1].lo ELSE 1

\* points_per_part as determined from part_info
structure_points_per_part(pinfo, n) ==
    IF pinfo # <<>> /\ counts_valid(pinfo, n)
    THEN SubSeq(pinfo, 2, pinfo[1].lo + 1)
    ELSE <<n>>

\* the first Y coordinate and the part structure; reached by the break of the
\* part-info loop or by its condition failing at the end of the blob
PartStructure ==
    /\ pc = "first_y"
    /\ LET r == read_varint(blob, pos)
       IN  /\ y_raw' = r.value
           /\ pos' = r.offset
           /\ curr_x' = x_raw
           /\ curr_y' = r.value
    /\ num_parts' = structure_num_parts(part_info, point_count)
    /\ points_per_part' = structure_points_per_part(part_info, point_count)
    /\ parts' = <<>>
    /\ part_idx' = 0
    /\ pc' = "part_begin"
    /\ UNCHANGED outside_decode
    /\ UNCHANGED <<cs, blob, point_count, geom_flags, bbox, part_info, x_raw,
                   current_part, points_to_read, iter, prev_was_absolute,
                   pending_coord, result, err>>

\* the head of the body of `for part_idx in range(num_parts)`
PartBegin ==
    /\ pc = "part_begin"
    /\ LET part_point_count ==
               IF part_idx < Len(points_per_part)
               THEN points_per_part[part_idx + 1] ELSE WZero
       IN  IF part_idx = 0
           THEN /\ current_part' = <<raw_to_coord(cs, curr_x, curr_y)>>
                /\ points_to_read' = WSub(part_point_count, W(0, 1))
                /\ prev_was_absolute' = TRUE
           ELSE /\ current_part' = <<>>
                /\ points_to_read' = part_point_count
                /\ prev_was_absolute' = FALSE
    /\ pending_coord' = None
    /\ iter' = 0
    /\ pc' = "read_pair"
    /\ UNCHANGED outside_decode
    /\ UNCHANGED <<cs, blob, pos, result, err, num_parts, points_per_part,
                   parts, curr_x, curr_y, part_idx>>
    /\ UNCHANGED header_locals

\* mutant of more_pairs: pairs are read as long as bytes remain
more_pairs_to_end == pos < Len(blob)

\* mutant of more_pairs: the loop does not stop at the end of the blob
more_pairs_past_end == WLt(ToWide(iter), points_to_read)

\* whether `for _ in range(points_to_read)` runs its body once more
more_pairs == WLt(ToWide(iter), points_to_read) /\ pos < Len(blob)

\* the branch taken for a pair whose first varint is v1
is_absolute(v1) == WGt(v1, COORD_THRESHOLD)

\* mutant of is_boundary: a second absolute replaces the pending one
is_boundary_never == FALSE

\* the consecutive-absolute test of the absolute branch
is_boundary == prev_was_absolute /\ pending_coord # None

\* mutant of next_position: a large second varint also makes the pair absolute
next_position_either(cx, cy, v1, v2) ==
    IF WGt(v1, COORD_THRESHOLD) \/ WGt(v2, COORD_THRESHOLD)
    THEN <<v1, v2>>
    ELSE <<WAdd(cx, zigzag_decode(v1)), WAdd(cy, zigzag_decode(v2))>>

\* the running position after the pair (v1, v2) is read at (cx, cy)
next_position(cx, cy, v1, v2) ==
    IF is_absolute(v1)
    THEN <<v1, v2>>
    ELSE <<WAdd(cx, zigzag_decode(v1)), WAdd(cy, zigzag_decode(v2))>>

\* mutant of flush_pending: the pending coordinate is dropped
flush_pending_dropped(part, pending) == part

\* `if pending_coord is not None: current_part.append(pending_coord)`
flush_pending(part, pending) ==
    IF pending # None THEN Append(part, pending) ELSE part

\* one iteration of the loop over the pairs of a part
ReadPair ==
    /\ pc = "read_pair"
    /\ more_pairs
    /\ \E r1 \in {read_varint(blob, pos)} :
       \E r2 \in {read_varint(blob, r1.offset)} :
       \E np \in {next_position(curr_x, curr_y, r1.value, r2.value)} :
       LET v1 == r1.value
           coord == raw_to_coord(cs, curr_x', curr_y')
       IN  /\ pos' = r2.offset
           /\ curr_x' = np[1]
           /\ curr_y' = np[2]
           /\ IF is_absolute(v1)
              THEN /\ IF is_boundary
                      THEN /\ parts' = Append(parts, Append(current_part, pending_coord))
                           /\ current_part' = <<coord>>
                           /\ pending_coord' = None
                      ELSE /\ pending_coord' = coord
                           /\ UNCHANGED <<parts, current_part>>
                   /\ prev_was_absolute' = TRUE
              ELSE /\ current_part' =
                        Append(flush_pending(current_part, pending_coord), coord)
                   /\ pending_coord' = None
                   /\ prev_was_absolute' = FALSE
                   /\ UNCHANGED parts
    /\ iter' = iter + 1
    /\ UNCHANGED outside_decode
    /\ UNCHANGED <<cs, blob, pc, result, err, num_parts, points_per_part,
                   part_idx, points_to_read>>
    /\ UNCHANGED header_locals

\* mutant of keep_part: an empty part is kept too
keep_part_always(ps, part) == Append(ps, part)

\* `if current_part: parts.append(current_part)`
keep_part(ps, part) == IF part # <<>> THEN Append(ps, part) ELSE ps

\* the end of a part: flush the pending coordinate, keep a non-empty part
PartEnd ==
    /\ pc = "read_pair"
    /\ ~more_pairs
    /\ LET flushed == flush_pending(current_part, pending_coord)
       IN  /\ current_part' = flushed
           /\ parts' = keep_part(parts, flushed)
    /\ part_idx' = part_idx + 1
    /\ pc' = IF part_idx + 1 < num_parts THEN "part_begin" ELSE "assemble"
    /\ UNCHANGED outside_decode
    /\ UNCHANGED <<cs, blob, pos, result, err, num_parts, points_per_part,
                   curr_x, curr_y, points_to_read, iter, prev_was_absolute,
                   pending_coord>>
    /\ UNCHANGED header_locals

\* mutant of LineString: a Z ordinate is attached to every point
LineString_with_z(points) ==
    [type |-> "LineString", points |-> points,
     z_values |-> <<[k \in 1..Len(points) |-> 0]>>]

LineString(points) == [type |-> "LineString", points |-> points, z_values |-> None]

\* the geometry type from the flags
\* mutant of base_type: the flags are compared whole
base_type_unmasked(flags) == flags.lo

\* `geom_flags & 0x0F`
base_type(flags) == flags.lo % 16

Assemble ==
    /\ pc = "assemble"
    /\ LET is_polygon == base_type(geom_flags) = POLYGON_BASE_TYPE
       IN  result' =
             IF is_polygon
             THEN [type |-> "Polygon", rings |-> parts, z_values |-> None]
             ELSE IF Len(parts) = 1
             THEN LineString(parts[1])
             ELSE [type |-> "MultiLineString",
                   lines |-> [k \in 1..Len(parts) |-> LineString(parts[k])]]
    /\ pc' = "done"
    /\ UNCHANGED outside_decode
    /\ UNCHANGED <<cs, blob, pos, err>>
    /\ UNCHANGED header_locals
    /\ UNCHANGED part_locals

Next ==
    \/ Decode
    \/ DecodePoint
    \/ ReadHeader
    \/ ReadPartInfo
    \/ PartStructure
    \/ PartBegin
    \/ ReadPair
    \/ PartEnd
    \/ Assemble

Spec == Init /\ [][Next]_vars

\* decode on the long inputs: runs of small varints at the limit of the scan
\* for the first coordinate, next to the point path
InitLong ==
    /\ cs = DefaultCS
    /\ blob \in LongBlobs \cup PointBlobs
    /\ OnEntry
    /\ calls = <<>>
    /\ NoDatabase
    /\ NoConversion

SpecLong == InitLong /\ [][Next]_vars

\* a decode call, once started, runs on to its return or its exception
SpecFair == Init /\ [][Next]_vars /\ WF_vars(Next)

\* the blobs given to a decoder that is called several times: the seed
\* scenarios, a point, and blobs of each error of the shared prefix
CallBlobs ==
    ScenarioBlobs \cup PointBlobs
    \cup {SubSeq(MAGIC, 1, 3), <<100, 17, 15, 1>> \o U32LE(1), MAGIC \o U32LE(0)}

\* mutant of cs_after_call: the call stores the doubled scale in the decoder
cs_after_call_rescaled(c) == [c EXCEPT !.xy_scale = effective_xy_scale(c)]

\* self.cs when decode has returned or raised: decode assigns no attribute
cs_after_call(c) == c

\* a call of decode(b): the locals of the call are fresh
EnterDecode(b) ==
    /\ blob' = b
    /\ pc' = "decode"
    /\ pos' = 0
    /\ point_count' = WZero
    /\ geom_flags' = WZero
    /\ bbox' = <<>>
    /\ part_info' = <<>>
    /\ x_raw' = WZero
    /\ y_raw' = WZero
    /\ num_parts' = 1
    /\ points_per_part' = <<>>
    /\ parts' = <<>>
    /\ curr_x' = WZero
    /\ curr_y' = WZero
    /\ part_idx' = 0
    /\ current_part' = <<>>
    /\ points_to_read' = WZero
    /\ iter' = 0
    /\ prev_was_absolute' = FALSE
    /\ pending_coord' = None
    /\ result' = NoGeometry
    /\ err' = NoError

\* decode is called again on the same decoder: the finished call is recorded,
\* the locals of the new call are fresh, the decoder keeps its attributes
CallAgain ==
    /\ UNCHANGED conv_vars
    /\ pc = "done"
    /\ Len(calls) < MaxCalls
    /\ calls' = Append(calls, [blob |-> blob, result |-> result, err |-> err])
    /\ UNCHANGED gdb_vars
    /\ cs' = cs_after_call(cs)
    /\ \E b \in CallBlobs : EnterDecode(b)

InitCalls ==
    /\ cs \in {DefaultCS, CustomCS}
    /\ blob \in CallBlobs
    /\ OnEntry
    /\ calls = <<>>
    /\ NoDatabase
    /\ NoConversion

NextCalls ==
    \/ Next
    \/ CallAgain

SpecCalls == InitCalls /\ [][NextCalls]_vars

(***************************************************************************)
(* GeoDatabase: one table with a geometry column in a file, the SQLite     *)
(* connection, the table list, and read_table with the decoder above.      *)
(***************************************************************************)
\* at most MaxRows rows in the table
MaxRows == 2
\* a GeoDatabase opens at most MaxOpens connections
MaxOpens == 3

decoder_vars ==
    <<cs, blob, pc, pos, point_count, geom_flags, bbox, part_info, x_raw,
      y_raw, num_parts, points_per_part, parts, curr_x, curr_y, part_idx,
      current_part, points_to_read, iter, prev_was_absolute, pending_coord,
      result, err>>

\* a Definition with all five elements, none of them 0
FullDefinition ==
    DefinitionOf(TRUE, TRUE, <<5>>, <<6>>, <<5000>>, <<7>>, <<8>>)

\* no row; a row without text; all elements; one element absent or 0
Definitions ==
    {NoDefinition,
     DefinitionOf(TRUE, FALSE, <<>>, <<>>, <<>>, <<>>, <<>>),
     FullDefinition}
    \cup {[FullDefinition EXCEPT ![f] = v] :
            f \in {"XOrigin", "YOrigin", "XYScale", "ZOrigin", "ZScale"},
            v \in {<<>>, <<0>>}}

PointRow ==
    [null |-> FALSE,
     shape |-> MAGIC \o U32LE(1) \o [k \in 1..10 |-> 0]
                   \o EncodeAll(<<FirstX, FirstY>>)]

LineRow ==
    [null |-> FALSE,
     shape |-> ComplexBlob(2, 4, <<W(0, 0)>>, <<W(0, 200), W(0, 99)>>)]

\* a blob with a foreign magic: decode raises
BadRow == [null |-> FALSE, shape |-> <<100, 17, 15, 1>> \o U32LE(1)]

\* a blob of 3 bytes: decode raises
ShortRow == [null |-> FALSE, shape |-> SubSeq(MAGIC, 1, 3)]

EmptyRow == [null |-> FALSE, shape |-> <<>>]

NullRow == [null |-> TRUE, shape |-> <<>>]

\* the tables of up to MaxRows rows; OBJECTID is the row number
RowSeqs ==
    UNION {[1..n -> {PointRow, BadRow, NullRow}] : n \in 0..MaxRows}

RowOf(k, rs) ==
    [OBJECTID |-> k, name |-> k, null |-> rs[k].null, shape |-> rs[k].shape]

\* tables with the other shapes
OtherTables ==
    {<<LineRow, ShortRow>>, <<EmptyRow, PointRow>>}

\* files: every Definition with a fixed table, every table with a full
\* Definition
Files ==
    {[definition |-> d, rows |-> [k \in 1..2 |-> RowOf(k, <<PointRow, BadRow>>)]] :
        d \in Definitions}
    \cup {[definition |-> FullDefinition,
           rows |-> [k \in 1..Len(rs) |-> RowOf(k, rs)]] :
            rs \in RowSeqs \cup OtherTables}

\* the limit argument of read_table: None or a non-negative integer
Limits == {<<>>} \cup {<<n>> : n \in 0..(MaxRows + 1)}

TableNames == {"Rivers", "Nope"}

\* `extract(pattern) or default`
extract_or(xml, tag, default) ==
    IF xml[tag] # <<>> /\ xml[tag][1] # 0 THEN xml[tag][1] ELSE default

\* GeoDatabase._get_coordinate_system
get_coordinate_system(d) ==
    IF ~d.row \/ ~d.xml
    THEN DefaultCS
    ELSE [x_origin |-> extract_or(d, "XOrigin", -20037700),
          y_origin |-> extract_or(d, "YOrigin", -30241100),
          xy_scale |-> extract_or(d, "XYScale", 10000),
          z_origin |-> extract_or(d, "ZOrigin", -100000),
          z_scale |-> extract_or(d, "ZScale", 10000),
          srid |-> "None", wkt |-> "None"]

\* the TableInfo list _load_tables builds
loaded_tables ==
    [loaded |-> TRUE,
     list |-> <<[name |-> "Rivers", geometry_column |-> "shape",
                 row_count |-> Len(rows),
                 coord_system |-> get_coordinate_system(definition)]>>]

\* whether a call of _get_connection stays within MaxOpens
can_connect == conn # 0 \/ opened < MaxOpens

\* mutant of get_connection: a connection is opened on every call
get_connection_always ==
    /\ conn' = opened + 1
    /\ open_conns' = open_conns \cup {opened + 1}
    /\ opened' = opened + 1

\* GeoDatabase._get_connection
get_connection ==
    /\ conn' = IF conn = 0 THEN opened + 1 ELSE conn
    /\ open_conns' = IF conn = 0 THEN open_conns \cup {opened + 1} ELSE open_conns
    /\ opened' = IF conn = 0 THEN opened + 1 ELSE opened

\* no call is running inside the generator: an operation can be called
between_calls == gen.pc # "decoding" /\ last_op.op # "none"

\* the tables property and get_table: the list is loaded on first use
Tables ==
    /\ UNCHANGED conv_vars
    /\ between_calls
    /\ IF tables.loaded
       THEN UNCHANGED <<conn, open_conns, opened, tables>>
       ELSE can_connect /\ get_connection /\ tables' = loaded_tables
    /\ last_op' = [op |-> "tables", ok |-> TRUE]
    /\ UNCHANGED <<definition, rows, decoders, gen, features, calls>>
    /\ UNCHANGED decoder_vars

\* execute(sql)
Execute ==
    /\ UNCHANGED conv_vars
    /\ between_calls
    /\ can_connect
    /\ get_connection
    /\ last_op' = [op |-> "execute", ok |-> TRUE]
    /\ UNCHANGED <<definition, rows, tables, decoders, gen, features, calls>>
    /\ UNCHANGED decoder_vars

\* close(), also called when a with-block is left
Close ==
    /\ UNCHANGED conv_vars
    /\ between_calls
    /\ conn' = 0
    /\ open_conns' = open_conns \ {conn}
    /\ last_op' = [op |-> "close", ok |-> TRUE]
    /\ UNCHANGED <<definition, rows, opened, tables, decoders, gen, features,
                   calls>>
    /\ UNCHANGED decoder_vars

\* the rows the query of read_table returns: LIMIT is added `if limit:`
limit_rows(rs, limit) ==
    IF limit # <<>> /\ limit[1] # 0 /\ limit[1] < Len(rs)
    THEN SubSeq(rs, 1, limit[1])
    ELSE rs

\* read_table(name, limit=limit): a generator is created, no code runs yet
ReadTable ==
    /\ UNCHANGED conv_vars
    /\ between_calls
    /\ \E n \in TableNames, l \in Limits :
          gen' = [NoGenerator EXCEPT !.pc = "created", !.name = n, !.limit = l]
    /\ features' = <<>>
    /\ last_op' = [op |-> "read_table", ok |-> TRUE]
    /\ UNCHANGED <<definition, rows, conn, open_conns, opened, tables,
                   decoders, calls>>
    /\ UNCHANGED decoder_vars

Feature(geometry, row) ==
    [geometry |-> geometry, attributes |-> [name |-> row.name],
     fid |-> <<row.OBJECTID>>]

\* mutant of after_decode: the exception of decode leaves the generator
after_decode_propagating(g, fs, geometry, e) ==
    IF e # NoError
    THEN [gen |-> [g EXCEPT !.pc = "raised", !.row = <<>>, !.error = e],
          features |-> fs]
    ELSE [gen |-> [g EXCEPT !.pc = "rows", !.row = <<>>],
          features |-> Append(fs, Feature(geometry, g.row[1]))]

\* `with contextlib.suppress(Exception): geometry = decoder.decode(blob)`,
\* then the Feature is yielded
after_decode(g, fs, geometry, e) ==
    [gen |-> [g EXCEPT !.pc = "rows", !.row = <<>>],
     features |-> Append(fs, Feature(IF e = NoError THEN geometry
                                                    ELSE NoGeometry, g.row[1]))]

\* the body of read_table before its loop, run by the first next()
StartTable ==
    /\ UNCHANGED conv_vars
    /\ between_calls
    /\ gen.pc = "created"
    /\ IF ~tables.loaded \/ gen.name = "Rivers"
       THEN can_connect /\ get_connection
       ELSE UNCHANGED <<conn, open_conns, opened>>
    /\ tables' = loaded_tables
    /\ last_op' = [op |-> "next", ok |-> gen.name = "Rivers"]
    /\ IF gen.name # "Rivers"
       THEN /\ gen' = [gen EXCEPT !.pc = "raised", !.error = "Table not found"]
            /\ UNCHANGED <<decoders, cs>>
       ELSE /\ gen' = [gen EXCEPT !.pc = "fetch",
                                  !.conn = IF conn = 0 THEN opened + 1 ELSE conn,
                                  !.cursor = limit_rows(rows, gen.limit),
                                  !.returned = limit_rows(rows, gen.limit)]
            /\ decoders' = TRUE
            /\ cs' = IF decoders THEN cs ELSE get_coordinate_system(definition)
    /\ UNCHANGED <<definition, rows, features, calls>>
    /\ UNCHANGED <<blob, pc, pos, point_count, geom_flags, bbox, part_info,
                   x_raw, y_raw, num_parts, points_per_part, parts, curr_x,
                   curr_y, part_idx, current_part, points_to_read, iter,
                   prev_was_absolute, pending_coord, result, err>>

\* `for row in cursor:` up to the call of decode or the yield
FetchRow ==
    /\ UNCHANGED conv_vars
    /\ gen.pc \in {"fetch", "rows"}
    /\ gen.pc = "rows" => between_calls
    /\ UNCHANGED <<definition, rows, conn, open_conns, opened, tables,
                   decoders, calls, cs>>
    /\ last_op' = [op |-> "next", ok |-> gen.conn \in open_conns]
    /\ IF gen.conn \notin open_conns
       THEN /\ gen' = [gen EXCEPT !.pc = "raised",
                                  !.error = "Cannot operate on a closed database."]
            /\ UNCHANGED <<features, blob, pc, pos, point_count, geom_flags,
                           bbox, part_info, x_raw, y_raw, num_parts,
                           points_per_part, parts, curr_x, curr_y, part_idx,
                           current_part, points_to_read, iter,
                           prev_was_absolute, pending_coord, result, err>>
       ELSE IF gen.cursor = <<>>
       THEN /\ gen' = [gen EXCEPT !.pc = "exhausted"]
            /\ UNCHANGED <<features, blob, pc, pos, point_count, geom_flags,
                           bbox, part_info, x_raw, y_raw, num_parts,
                           points_per_part, parts, curr_x, curr_y, part_idx,
                           current_part, points_to_read, iter,
                           prev_was_absolute, pending_coord, result, err>>
       ELSE IF Head(gen.cursor).null \/ Head(gen.cursor).shape = <<>>
       THEN /\ gen' = [gen EXCEPT !.pc = "rows", !.cursor = Tail(gen.cursor)]
            /\ features' = Append(features,
                                  Feature(NoGeometry, Head(gen.cursor)))
            /\ UNCHANGED <<blob, pc, pos, point_count, geom_flags,
                           bbox, part_info, x_raw, y_raw, num_parts,
                           points_per_part, parts, curr_x, curr_y, part_idx,
                           current_part, points_to_read, iter,
                           prev_was_absolute, pending_coord, result, err>>
       ELSE /\ gen' = [gen EXCEPT !.pc = "decoding",
                                  !.cursor = Tail(gen.cursor),
                                  !.row = <<Head(gen.cursor)>>]
            /\ UNCHANGED features
            /\ EnterDecode(Head(gen.cursor).shape)

\* decode has returned or raised: the Feature of the row is yielded
YieldFeature ==
    /\ UNCHANGED conv_vars
    /\ gen.pc = "decoding"
    /\ pc = "done"
    /\ gen' = after_decode(gen, features, result, err).gen
    /\ features' = after_decode(gen, features, result, err).features
    /\ UNCHANGED <<definition, rows, conn, open_conns, opened, tables,
                   decoders, calls, last_op>>
    /\ UNCHANGED decoder_vars

\* after construction: _validate has opened the connection
InitDb ==
    /\ \E f \in Files : definition = f.definition /\ rows = f.rows
    /\ conn = 1
    /\ open_conns = {1}
    /\ opened = 1
    /\ tables = TablesNotLoaded
    /\ decoders = FALSE
    /\ gen = NoGenerator
    /\ features = <<>>
    /\ last_op = [op |-> "init", ok |-> TRUE]
    /\ cs = DefaultCS
    /\ blob = <<>>
    /\ pc = "done"
    /\ FreshLocals
    /\ calls = <<>>
    /\ NoConversion

NextDb ==
    \/ Next
    \/ Tables
    \/ Execute
    \/ Close
    \/ ReadTable
    \/ StartTable
    \/ FetchRow
    \/ YieldFeature

SpecDb == InitDb /\ [][NextDb]_vars

(***************************************************************************)
(* Converters: to_wkb and feature_to_geojson.  Ordinates are the doubles   *)
(* 0.0 .. MaxOrdinate.                                                     *)
(***************************************************************************)
\* the ordinates of the points given to the converters
MaxOrdinate == 2

WKB_POINT == 1
WKB_LINESTRING == 2
WKB_POLYGON == 3
WKB_MULTIPOINT == 4
WKB_MULTILINESTRING == 5
WKB_MULTIPOLYGON == 6
\* 0x80000000
WKB_Z_FLAG == W(8, 0)

\* the geometry classes
GPoint(x, y, z) == [type |-> "Point", x |-> x, y |-> y, z |-> z]
GLineString(points, z_values) ==
    [type |-> "LineString", points |-> points, z_values |-> z_values]
GPolygon(rings, z_values) ==
    [type |-> "Polygon", rings |-> rings, z_values |-> z_values]
GMultiPoint(points) == [type |-> "MultiPoint", points |-> points]
GMultiLineString(lines) == [type |-> "MultiLineString", lines |-> lines]
GMultiPolygon(polygons) == [type |-> "MultiPolygon", polygons |-> polygons]

\* an optional list: None is <<>>, the list l is <<l>>
Some(l) == <<l>>

\* the components of a multi-geometry
components(g) ==
    IF g.type = "MultiPoint" THEN g.points
    ELSE IF g.type = "MultiLineString" THEN g.lines
    ELSE g.polygons

\* the has_z property of each class
has_z(g) ==
    IF g.type = "Point" THEN g.z # None
    ELSE IF g.type \in {"LineString", "Polygon"}
    THEN g.z_values # None /\ Len(g.z_values[1]) > 0
    ELSE IF g.type = "MultiPoint" THEN \E k \in 1..Len(g.points) : g.points[k].z # None
    ELSE IF g.type = "MultiLineString"
    THEN \E k \in 1..Len(g.lines) :
            g.lines[k].z_values # None /\ Len(g.lines[k].z_values[1]) > 0
    ELSE \E k \in 1..Len(g.polygons) :
            g.polygons[k].z_values # None /\ Len(g.polygons[k].z_values[1]) > 0

\* b"".join(chunks)
RECURSIVE join(_)
join(chunks) == IF chunks = <<>> THEN <<>> ELSE Head(chunks) \o join(Tail(chunks))

\* s[::-1]
reversed(s) == [k \in 1..Len(s) |-> s[Len(s) + 1 - k]]

\* floor(log2(v)) for v >= 1
RECURSIVE log2(_)
log2(v) == IF v < 2 THEN 0 ELSE 1 + log2(v \div 2)

\* struct.pack(">d", v) for an integer 0 <= v < 32: sign 0, exponent
\* 1023 + e in 11 bits, the fraction (v - 2^e) / 2^e in 52 bits
pack_double_be(v) ==
    IF v = 0 THEN [k \in 1..8 |-> 0]
    ELSE LET e == log2(v)
             exponent == 1023 + e
             top4 == ((v - 2^e) * 16) \div 2^e
             next8 == ((((v - 2^e) * 16) % 2^e) * 256) \div 2^e
         IN  <<exponent \div 16, (exponent % 16) * 16 + top4, next8,
               0, 0, 0, 0, 0>>

\* struct.pack(f"{byte_order}d", v)
pack_double(v, be) ==
    IF be THEN pack_double_be(v) ELSE reversed(pack_double_be(v))

\* struct.pack(f"{byte_order}I", n) of a wide n
pack_u32(n, be) ==
    LET le == <<n.lo % 256, (n.lo \div 256) % 256, (n.lo \div 65536) % 256,
                (n.lo \div 16777216) + 16 * n.hi>>
    IN  IF be THEN reversed(le) ELSE le

\* mutant of wkb_type: the Z flag is never set
wkb_type_never_z(code, g) == W(0, code)

\* `WKB_X | (WKB_Z_FLAG if geom.has_z else 0)`
wkb_type(code, g) == IF has_z(g) THEN WAdd(WKB_Z_FLAG, W(0, code)) ELSE W(0, code)

\* struct.pack(f"{byte_order}bI", bo_flag, wkb_type)
pack_header(code, g, be) ==
    <<IF be THEN 0 ELSE 1>> \o pack_u32(wkb_type(code, g), be)

\* the coordinates of the points of a LineString
line_coords(g, be) ==
    join([i \in 1..Len(g.points) |->
            pack_double(g.points[i][1], be) \o pack_double(g.points[i][2], be)
            \o (IF has_z(g) THEN pack_double(g.z_values[1][i], be) ELSE <<>>)])

\* the rings of a Polygon: the count of each ring and its coordinates
ring_coords(g, be) ==
    join([i \in 1..Len(g.rings) |->
            pack_u32(W(0, Len(g.rings[i])), be)
            \o join([j \in 1..Len(g.rings[i]) |->
                       pack_double(g.rings[i][j][1], be)
                       \o pack_double(g.rings[i][j][2], be)
                       \o (IF has_z(g) /\ i <= Len(g.z_values[1])
                           THEN pack_double(g.z_values[1][i][j], be)
                           ELSE <<>>)])])

\* to_wkb of a Point, a LineString or a Polygon
simple_wkb(g, be) ==
    IF g.type = "Point"
    THEN pack_header(WKB_POINT, g, be)
         \o pack_double(g.x, be) \o pack_double(g.y, be)
         \o (IF has_z(g) THEN pack_double(g.z[1], be) ELSE <<>>)
    ELSE IF g.type = "LineString"
    THEN pack_header(WKB_LINESTRING, g, be)
         \o pack_u32(W(0, Len(g.points)), be) \o line_coords(g, be)
    ELSE pack_header(WKB_POLYGON, g, be)
         \o pack_u32(W(0, Len(g.rings)), be) \o ring_coords(g, be)

\* to_wkb(geom, big_endian): the components of a multi-geometry are written
\* by the recursive call
to_wkb(g, be) ==
    IF g.type \in {"Point", "LineString", "Polygon"}
    THEN simple_wkb(g, be)
    ELSE pack_header(IF g.type = "MultiPoint" THEN WKB_MULTIPOINT
                     ELSE IF g.type = "MultiLineString" THEN WKB_MULTILINESTRING
                     ELSE WKB_MULTIPOLYGON, g, be)
         \o pack_u32(W(0, Len(components(g))), be)
         \o join([k \in 1..Len(components(g)) |-> simple_wkb(components(g)[k], be)])

\* web_mercator_to_wgs84 is pyproj's; its results are kept symbolic
transform_coord(coord, wgs) ==
    IF wgs
    THEN <<[lon_of |-> <<coord[1], coord[2]>>],
           [lat_of |-> <<coord[1], coord[2]>>]>> \o SubSeq(coord, 3, Len(coord))
    ELSE coord

\* the "coordinates" of a LineString as to_geojson_geometry writes them
geojson_line(g, wgs) ==
    [i \in 1..Len(g.points) |->
        transform_coord(<<g.points[i][1], g.points[i][2]>>
                        \o (IF g.z_values # None /\ i <= Len(g.z_values[1])
                            THEN <<g.z_values[1][i]>> ELSE <<>>), wgs)]

\* the "coordinates" of a Polygon
geojson_rings(g, wgs) ==
    [i \in 1..Len(g.rings) |->
        [j \in 1..Len(g.rings[i]) |->
            transform_coord(<<g.rings[i][j][1], g.rings[i][j][2]>>
                            \o (IF has_z(g) /\ i <= Len(g.z_values[1])
                                THEN <<g.z_values[1][i][j]>> ELSE <<>>), wgs)]]

geojson_point(g, wgs) ==
    transform_coord(<<g.x, g.y>> \o (IF g.z # None THEN <<g.z[1]>> ELSE <<>>), wgs)

\* to_geojson_geometry(geom, to_wgs84)
to_geojson_geometry(g, wgs) ==
    [type |-> g.type,
     coordinates |->
        IF g.type = "Point" THEN geojson_point(g, wgs)
        ELSE IF g.type = "LineString" THEN geojson_line(g, wgs)
        ELSE IF g.type = "Polygon" THEN geojson_rings(g, wgs)
        ELSE IF g.type = "MultiPoint"
        THEN [k \in 1..Len(g.points) |-> geojson_point(g.points[k], wgs)]
        ELSE IF g.type = "MultiLineString"
        THEN [k \in 1..Len(g.lines) |->
                 [i \in 1..Len(g.lines[k].points) |->
                     transform_coord(
                         <<g.lines[k].points[i][1], g.lines[k].points[i][2]>>
                         \o (IF has_z(g.lines[k])
                             THEN <<g.lines[k].z_values[1][i]>> ELSE <<>>), wgs)]]
        ELSE [k \in 1..Len(g.polygons) |-> geojson_rings(g.polygons[k], wgs)]]

\* JSON null
JsonNull == [type |-> "null"]

\* `if feature.geometry:`: None is falsy, and so is an object whose class
\* defines __len__ and whose length is 0
truthy(g) ==
    IF g.type = "None" THEN FALSE
    ELSE IF g.type = "LineString" THEN Len(g.points) > 0
    ELSE IF g.type = "MultiPoint" THEN Len(g.points) > 0
    ELSE IF g.type = "MultiLineString" THEN Len(g.lines) > 0
    ELSE IF g.type = "MultiPolygon" THEN Len(g.polygons) > 0
    ELSE TRUE

\* feature_to_geojson(feature, to_wgs84)
feature_to_geojson(f, wgs) ==
    LET geometry == IF truthy(f.geometry)
                    THEN to_geojson_geometry(f.geometry, wgs)
                    ELSE JsonNull
    IN  IF f.fid # None
        THEN [type |-> "Feature", properties |-> f.attributes,
              geometry |-> geometry, id |-> f.fid[1]]
        ELSE [type |-> "Feature", properties |-> f.attributes,
              geometry |-> geometry]

Ordinates == 0..MaxOrdinate

Ring1 == <<<<0, 0>>, <<1, 0>>, <<0, 1>>, <<0, 0>>>>
Ring2 == <<<<1, 1>>, <<2, 1>>, <<1, 1>>>>

Points2D == {GPoint(x, y, None) : x, y \in Ordinates}
Points3D == {GPoint(1, y, Some(z)) : y, z \in Ordinates}

LineStrings2D ==
    {GLineString(ps, None) : ps \in SeqsUpTo({<<1, 2>>, <<0, 1>>}, 2)}
    \cup {GLineString(<<<<1, 2>>>>, Some(<<>>))}
LineStrings3D ==
    {GLineString(<<<<1, 2>>>>, Some(<<2>>)),
     GLineString(<<<<1, 2>>, <<0, 1>>>>, Some(<<0, 1>>))}

Polygons2D ==
    {GPolygon(rs, None) : rs \in SeqsUpTo({Ring1, Ring2}, 2)}
Polygons3D ==
    {GPolygon(<<Ring2>>, Some(<<<<2, 1, 2>>>>)),
     GPolygon(<<Ring1, Ring2>>, Some(<<<<0, 0, 1, 0>>, <<2, 1, 2>>>>))}
\* z_values for the first ring only
PolygonsPartZ ==
    {GPolygon(<<Ring2, Ring1>>, Some(<<<<2, 1, 2>>>>))}

MultiGeometries ==
    {GMultiPoint(ps) :
        ps \in SeqsUpTo({GPoint(1, 2, None), GPoint(0, 1, Some(2))}, 2)}
    \cup {GMultiLineString(ls) :
        ls \in SeqsUpTo({GLineString(<<<<1, 2>>, <<0, 1>>>>, None),
                         GLineString(<<<<1, 2>>>>, Some(<<2>>))}, 2)}
    \cup {GMultiPolygon(ps) :
        ps \in SeqsUpTo({GPolygon(<<Ring1>>, None),
                         GPolygon(<<Ring2>>, Some(<<<<2, 1, 2>>>>))}, 2)}

Geometries ==
    Points2D \cup Points3D \cup LineStrings2D \cup LineStrings3D
    \cup Polygons2D \cup Polygons3D \cup PolygonsPartZ \cup MultiGeometries

ConvFeatures ==
    {[geometry |-> g, attributes |-> [name |-> a], fid |-> f] :
        g \in Geometries \cup {NoGeometry}, a \in {1, 2},
        f \in {None, Some(0), Some(1)}}

\* to_wkb(feature.geometry, big_endian)
ToWkb ==
    /\ feature.geometry # NoGeometry
    /\ wkb = <<>>
    /\ wkb' = to_wkb(feature.geometry, big_endian)
    /\ UNCHANGED <<feature, big_endian, to_wgs84, geojson, calls>>
    /\ UNCHANGED gdb_vars
    /\ UNCHANGED decoder_vars

\* feature_to_geojson(feature, to_wgs84)
FeatureToGeojson ==
    /\ geojson = NoOutput
    /\ geojson' = feature_to_geojson(feature, to_wgs84)
    /\ UNCHANGED <<feature, big_endian, to_wgs84, wkb, calls>>
    /\ UNCHANGED gdb_vars
    /\ UNCHANGED decoder_vars

InitConv ==
    /\ feature \in ConvFeatures
    /\ big_endian \in BOOLEAN
    /\ to_wgs84 \in BOOLEAN
    /\ wkb = <<>>
    /\ geojson = NoOutput
    /\ cs = DefaultCS
    /\ blob = <<>>
    /\ pc = "done"
    /\ FreshLocals
    /\ calls = <<>>
    /\ NoDatabase

NextConv ==
    \/ ToWkb
    \/ FeatureToGeojson

SpecConv == InitConv /\ [][NextConv]_vars


(***************************************************************************)
(* Properties                                                              *)
(***************************************************************************)
RECURSIVE TotalLen(_)
TotalLen(ps) == IF ps = <<>> THEN 0 ELSE Len(Head(ps)) + TotalLen(Tail(ps))

RECURSIVE Flatten(_)
Flatten(ps) == IF ps = <<>> THEN <<>> ELSE Head(ps) \o Flatten(Tail(ps))

\* the parts of a returned geometry, as sequences of points
PartsOf(g) ==
    IF g.type = "Point" THEN <<<< <<g.x, g.y>> >>>>
    ELSE IF g.type = "LineString" THEN <<g.points>>
    ELSE IF g.type = "Polygon" THEN g.rings
    ELSE [k \in 1..Len(g.lines) |-> g.lines[k].points]

Returned == pc = "done" /\ result # NoGeometry

ReturnedComplex == Returned /\ result.type # "Point"

\* the unsigned 32-bit little-endian integer at bytes 4..7
HeaderCount == unpack_u32(blob)

\* C1: whenever decode returns a geometry, the total number of points of
\* the geometry equals the point count stored at bytes 4..7 of the blob.
C1_PointTotalEqualsHeaderCount ==
    Returned => ToWide(TotalLen(PartsOf(result))) = HeaderCount

\* C2: when the bytes of a complex blob run out before N coordinates are
\* assembled, decode fails with PointCountMismatch and returns no geometry.
C2_ShortStreamIsRejected ==
    (/\ pc = "done"
     /\ part_idx >= 1
     /\ pos >= Len(blob)
     /\ WLt(ToWide(TotalLen(parts)), HeaderCount))
    => (err = "PointCountMismatch" /\ result = NoGeometry)

\* the part structure num_parts = M, points_per_part = p_1..p_M was accepted
StructureAccepted == part_info # <<>> /\ counts_valid(part_info, point_count)

\* C3: when a declared part structure is accepted, the decoded geometry has
\* exactly M parts and part i holds exactly p_i points, whatever the mix of
\* absolute and delta pairs.  (Stated for the blobs whose stream delivers all
\* N coordinates, so that a short stream is not what breaks it.)
C3_DeclaredPartsAreAuthoritative ==
    (/\ ReturnedComplex
     /\ StructureAccepted
     /\ ToWide(TotalLen(PartsOf(result))) = HeaderCount)
    => (/\ Len(PartsOf(result)) = num_parts
        /\ \A k \in 1..num_parts :
              ToWide(Len(PartsOf(result)[k])) = points_per_part[k])

\* the offset after k varints read from offset
RECURSIVE SkipVarints(_, _, _)
SkipVarints(data, offset, k) ==
    IF k = 0 THEN offset
    ELSE SkipVarints(data, read_varint(data, offset).offset, k - 1)

\* the varints of value <= T found from offset on, up to the first one > T
RECURSIVE SmallRun(_, _)
SmallRun(data, offset) ==
    IF offset >= Len(data) THEN <<>>
    ELSE LET r == read_varint(data, offset)
         IN  IF WGt(r.value, COORD_THRESHOLD) THEN <<>>
             ELSE <<r.value>> \o SmallRun(data, r.offset)

\* P: the small varints after size hint, flags and bounding box
PrefixP == SmallRun(blob, SkipVarints(blob, 8, 6))

StructureKnown == pc \in {"part_begin", "read_pair", "assemble"}

\* C4: num_parts = p_0 and points_per_part = [p_1..p_M] exactly when
\* 0 < p_0 < 10000, k > p_0 and p_1 + ... + p_M = N; otherwise num_parts = 1
\* and points_per_part = [N].
C4_PartStructureFromPrefix ==
    StructureKnown =>
        LET P == PrefixP
            k == Len(P)
            accepted ==
                /\ k > 0
                /\ WGt(P[1], WZero) /\ WLt(P[1], W(0, 10000))
                /\ k > P[1].lo
                /\ WSum(SubSeq(P, 2, P[1].lo + 1)) = HeaderCount
        IN  IF accepted
            THEN num_parts = P[1].lo /\ points_per_part = SubSeq(P, 2, P[1].lo + 1)
            ELSE num_parts = 1 /\ points_per_part = <<HeaderCount>>

\* N = 4 with prefix [3, 1, 1, 1]: the candidate is rejected
C4_Witness ==
    /\ pc = "part_begin"
    /\ HeaderCount = W(0, 4)
    /\ PrefixP = WideSeq(<<3, 1, 1, 1>>)
    /\ num_parts = 1
    /\ points_per_part = <<W(0, 4)>>

\* a step of the pair loop that reads one pair
PairStep == pc = "read_pair" /\ iter' = iter + 1

\* the two varints of the pair at pos
PairV1 == read_varint(blob, pos).value

PairV2 == read_varint(blob, read_varint(blob, pos).offset).value

\* C5: an absolute pair that arrives while an absolute is pending closes the
\* current part with the pending point as its last point and starts a new
\* part with the new absolute, leaving nothing pending; a delta pair that
\* arrives while an absolute is pending appends the pending point to the
\* current part, which stays open.
C5_ConsecutiveAbsolutesSplit ==
    [][(PairStep /\ pending_coord # None) =>
         IF WGt(PairV1, COORD_THRESHOLD)
         THEN /\ parts' = Append(parts, Append(current_part, pending_coord))
              /\ current_part' = <<raw_to_coord(cs, PairV1, PairV2)>>
              /\ pending_coord' = None
         ELSE /\ parts' = parts
              /\ Len(current_part') = Len(current_part) + 2
              /\ SubSeq(current_part', 1, Len(current_part) + 1)
                    = Append(current_part, pending_coord)
              /\ pending_coord' = None]_vars

\* the state after an absolute met a pending absolute: a part was closed and
\* the new part holds the second absolute only
C5_Witness ==
    /\ pc = "read_pair"
    /\ iter >= 2
    /\ prev_was_absolute
    /\ pending_coord = None
    /\ Len(current_part) = 1
    /\ parts # <<>>

\* the blobs of the scenario: N = 4, line flags, no accepted part structure,
\* and after the first coordinate a delta, two absolutes and a delta
IsConsecutiveAbsoluteScenario ==
    blob \in {ComplexBlob(4, 4, pinfo, StreamOf(<<"D", "A", "A", "D">>, 1)) :
                pinfo \in {<<>>, <<W(0, 0)>>}}

\* C6 as stated: the scenario decodes to two parts of two points each.
C6_TwoPartsOfTwoPoints ==
    (Returned /\ IsConsecutiveAbsoluteScenario) =>
        /\ result.type = "MultiLineString"
        /\ Len(result.lines) = 2
        /\ Len(result.lines[1].points) = 2
        /\ Len(result.lines[2].points) = 2

\* C6 amended: the scenario decodes to a MultiLineString of a 3-point line
\* (first coordinate, delta point, first absolute) and a 1-point line (second
\* absolute); the boundary lies between the two adjacent absolutes and the
\* trailing delta pair is never read, N - 1 = 3 pairs having been consumed.
C6_ThreePointsThenOne ==
    (Returned /\ IsConsecutiveAbsoluteScenario) =>
        /\ result.type = "MultiLineString"
        /\ Len(result.lines) = 2
        /\ Len(result.lines[1].points) = 3
        /\ Len(result.lines[2].points) = 1
        /\ result.lines[1].points[3][1].num = PairOf("A", 2)[1]
        /\ result.lines[2].points[1][1].num = PairOf("A", 3)[1]
        /\ pos = Len(blob) - Len(EncodeAll(PairOf("D", 4)))

C6_Witness ==
    /\ Returned
    /\ IsConsecutiveAbsoluteScenario
    /\ Len(PartsOf(result)) = 2

\* C7: a pair (v1, v2) moves the running position to (v1, v2) when v1 > T and
\* to (curr_x + zigzag(v1), curr_y + zigzag(v2)) otherwise, whatever v2 is;
\* the point emitted for the pair is raw_to_coord of the new position; no
\* other step between the first coordinate and the result moves the position.
C7_RunningPosition ==
    [][/\ PairStep =>
            /\ IF WGt(PairV1, COORD_THRESHOLD)
               THEN curr_x' = PairV1 /\ curr_y' = PairV2
               ELSE /\ curr_x' = WAdd(curr_x, zigzag_decode(PairV1))
                    /\ curr_y' = WAdd(curr_y, zigzag_decode(PairV2))
            /\ raw_to_coord(cs, curr_x', curr_y') =
                  IF pending_coord' # None THEN pending_coord'
                  ELSE current_part'[Len(current_part')]
       /\ (~PairStep /\ pc \in {"part_begin", "read_pair", "assemble"}) =>
            (curr_x' = curr_x /\ curr_y' = curr_y)]_vars

\* a part after the first one has read a delta pair whose second varint is
\* large: the delta was applied to the position the previous part ended at
C7_Witness ==
    /\ pc = "read_pair"
    /\ part_idx >= 1
    /\ iter >= 1
    /\ ~prev_was_absolute
    /\ curr_y.hi > FirstY.hi + 100

\* the first varint > T from offset on, and the offset after it
RECURSIVE FirstLarge(_, _)
FirstLarge(data, offset) ==
    IF offset >= Len(data) THEN [value |-> WZero, offset |-> offset]
    ELSE LET r == read_varint(data, offset)
         IN  IF WGt(r.value, COORD_THRESHOLD) THEN r
             ELSE FirstLarge(data, r.offset)

\* the first coordinate of the blob and the offset of the first pair
StreamX0 == FirstLarge(blob, SkipVarints(blob, 8, 6))

StreamY0 == read_varint(blob, StreamX0.offset)

\* the points of the first n pairs found from offset on, in blob order, (cx, cy)
\* being the position before them
RECURSIVE StreamPoints(_, _, _, _, _, _)
StreamPoints(c, data, offset, cx, cy, n) ==
    IF n = 0 THEN <<>>
    ELSE LET r1 == read_varint(data, offset)
             r2 == read_varint(data, r1.offset)
             nx == IF WGt(r1.value, COORD_THRESHOLD) THEN r1.value
                   ELSE WAdd(cx, zigzag_decode(r1.value))
             ny == IF WGt(r1.value, COORD_THRESHOLD) THEN r2.value
                   ELSE WAdd(cy, zigzag_decode(r2.value))
         IN  <<raw_to_coord(c, nx, ny)>>
             \o StreamPoints(c, data, r2.offset, nx, ny, n - 1)

\* C8: the decoded parts, concatenated in part order, are the first
\* coordinate followed by the points of the pairs read, in blob order: every
\* pair consumed contributes exactly one point, none is dropped, duplicated
\* or moved.
C8_PartsPreserveBlobOrder ==
    ReturnedComplex =>
        LET flat == Flatten(PartsOf(result))
        IN  /\ flat # <<>>
            /\ flat = <<raw_to_coord(cs, StreamX0.value, StreamY0.value)>>
                      \o StreamPoints(cs, blob, StreamY0.offset, StreamX0.value,
                                      StreamY0.value, Len(flat) - 1)
            /\ pos = SkipVarints(blob, StreamY0.offset, 2 * (Len(flat) - 1))

\* a geometry of several parts whose last part ended with an absolute still
\* pending, flushed at the end of the part
C8_Witness ==
    /\ ReturnedComplex
    /\ pending_coord # None
    /\ Len(PartsOf(result)) >= 2
    /\ PartsOf(result)[Len(PartsOf(result))][Len(current_part)] = pending_coord

\* C9: a varint whose continuation bit is set on the last byte of the slice
\* makes the read fail with Truncated.  (pos = Len(blob) with the high bit of
\* the last byte set: the last read_varint call ran off the end of the blob.)
C9_TruncatedVarintFails ==
    (/\ pc = "done"
     /\ Len(blob) > HEADER_LEN
     /\ pos = Len(blob)
     /\ blob[Len(blob)] >= 128)
    => (err = "Truncated" /\ result = NoGeometry)

\* C10: an input shorter than 8 bytes fails with the blob-too-short error,
\* whatever its bytes are.
C10_ShortBlobIsTooShort ==
    Len(blob) < 8 =>
        \/ pc = "decode"
        \/ pc = "done" /\ err = "Blob too short" /\ result = NoGeometry

\* a short blob whose first four bytes are not the magic
C10_Witness ==
    /\ pc = "done"
    /\ Len(blob) \in 4..7
    /\ SubSeq(blob, 1, 4) # MAGIC
    /\ err = "Blob too short"

\* C11: a blob of at least 8 bytes whose first four bytes differ from the
\* magic fails with the invalid-magic error, whatever its other bytes are.
C11_BadMagicIsRejected ==
    (Len(blob) >= 8 /\ SubSeq(blob, 1, 4) # <<100, 17, 15, 0>>) =>
        \/ pc = "decode"
        \/ pc = "done" /\ err = "Invalid magic header" /\ result = NoGeometry

\* a rejected blob that differs from a well-formed one in its fourth byte only
\* and whose point count is not 0
C11_Witness ==
    /\ pc = "done"
    /\ err = "Invalid magic header"
    /\ Len(blob) > 8
    /\ SubSeq(blob, 1, 3) = <<100, 17, 15>>
    /\ HeaderCount # WZero

\* C12: a blob of at least 8 bytes with the magic and a point count of 0
\* fails with the empty-geometry error, whatever follows byte 7.
C12_ZeroCountIsEmptyGeometry ==
    (/\ Len(blob) >= 8
     /\ SubSeq(blob, 1, 4) = <<100, 17, 15, 0>>
     /\ SubSeq(blob, 5, 8) = <<0, 0, 0, 0>>) =>
        \/ pc = "decode"
        \/ /\ pc = "done"
           /\ err = "Empty geometry (point count = 0)"
           /\ result = NoGeometry

\* a rejected blob with a zero count that carries a whole coordinate stream
C12_Witness ==
    /\ pc = "done"
    /\ err = "Empty geometry (point count = 0)"
    /\ Len(blob) > 30

\* C13: the scan for the first coordinate fails with the coordinate-start
\* error once more than 10,000 small varints were read before any varint
\* above the threshold, and never fails for this reason with 10,000 or fewer.
C13_RunawayPartInfo ==
    /\ Len(part_info) > 10000 =>
          /\ pc = "done"
          /\ err = "Could not find coordinate start"
          /\ result = NoGeometry
    /\ err = "Could not find coordinate start" => Len(part_info) > 10000
    /\ \A c \in LongCases :
          (pc = "done" /\ blob = c.blob) =>
              (err = "Could not find coordinate start" <=> c.k > 10000)

\* a run of 10,001 small varints has failed
C13_Witness ==
    /\ pc = "done"
    /\ err = "Could not find coordinate start"
    /\ Len(part_info) = 10001

\* a run of exactly 10,000 small varints before the first coordinate is decoded
C13_WitnessAtLimit ==
    /\ pc = "done"
    /\ Len(part_info) = 10000
    /\ result.type = "LineString"
    /\ Len(result.points) = 2

\* the flags varint of a complex blob: the second varint after the header
BlobFlags == read_varint(blob, read_varint(blob, 8).offset).value

C15_PointIffOneAndThirty ==
    LET rx == read_varint(blob, 18)
        ry == read_varint(blob, rx.offset)
        c == raw_to_coord(cs, rx.value, ry.value)
    IN  /\ (pc = "done" /\ err \notin {"Blob too short", "Invalid magic header"}) =>
              (result.type = "Point" <=>
                  (HeaderCount = W(0, 1) /\ Len(blob) = 30))
        /\ (Returned /\ result.type = "Point") =>
              result = [type |-> "Point", x |-> c[1], y |-> c[2], z |-> <<>>]
        /\ (Returned /\ HeaderCount = W(0, 1) /\ Len(blob) # 30) =>
              result.type \in {"LineString", "Polygon"}

\* C16: every coordinate decode returns is raw / (2 * xy_scale) + origin, with
\* the x origin for x and the y origin for y, for the default coordinate
\* system (divisor 20000) and for one passed to the decoder (xy_scale 5000,
\* divisor 10000); the raw values of the first point are the varints read.
C16_CoordinateFormula ==
    Returned =>
        LET flat == Flatten(PartsOf(result))
            rx == read_varint(blob, 18)
            ry == read_varint(blob, rx.offset)
        IN  /\ \A k \in 1..Len(flat) :
                  /\ flat[k][1].den = 2 * cs.xy_scale
                  /\ flat[k][1].add = cs.x_origin
                  /\ flat[k][2].den = 2 * cs.xy_scale
                  /\ flat[k][2].add = cs.y_origin
                  /\ cs = DefaultCS => flat[k][1].den = 20000
                  /\ cs = CustomCS => flat[k][1].den = 10000
            /\ result.type = "Point" =>
                  /\ flat[1][1].num = rx.value
                  /\ flat[1][2].num = ry.value
            /\ result.type # "Point" =>
                  /\ flat[1][1].num = x_raw
                  /\ flat[1][2].num = y_raw

\* a polygon decoded under the passed coordinate system: divisor 10000, origin 0
C16_Witness ==
    /\ Returned
    /\ cs = CustomCS
    /\ result.type = "Polygon"
    /\ result.rings[1][1][2] = [num |-> y_raw, den |-> 10000, add |-> 0]

\* n / 2 for even n and -((n + 1) / 2) for odd n
ZigzagMap(n) ==
    IF n.lo % 2 = 0 THEN WShr1(n) ELSE WNeg(WShr1(WAdd(n, W(0, 1))))

\* C17: zigzag_decode maps an even n to n / 2 and an odd n to -((n + 1) / 2),
\* so it inverts the zigzag encoding: a delta pair that carries the zigzag
\* encodings of dx and dy moves the running position by exactly (dx, dy).
C17_ZigzagInverse ==
    \A c \in ZigzagCases :
        (blob = c.blob /\ pc = "done") =>
            LET n1 == read_varint(blob, StreamY0.offset)
                n2 == read_varint(blob, n1.offset)
            IN  /\ curr_x = WAdd(FirstX, c.dx)
                /\ curr_y = WAdd(FirstY, c.dy)
                /\ curr_x = WAdd(FirstX, ZigzagMap(n1.value))
                /\ curr_y = WAdd(FirstY, ZigzagMap(n2.value))
                /\ Flatten(PartsOf(result)) =
                      <<raw_to_coord(cs, FirstX, FirstY),
                        raw_to_coord(cs, curr_x, curr_y)>>

\* the odd varint 3 was decoded as the delta -2 on both axes
C17_Witness ==
    /\ pc = "done"
    /\ blob \in ZigzagBlobs
    /\ read_varint(blob, StreamY0.offset).value = W(0, 3)
    /\ curr_x = WSub(FirstX, W(0, 2))
    /\ curr_y = WSub(FirstY, W(0, 2))
    /\ result.type = "LineString"

\* a large negative delta, below -2^57, was decoded from its odd encoding
C17_WitnessLarge ==
    /\ pc = "done"
    /\ blob \in ZigzagBlobs
    /\ curr_y = WSub(FirstY, W(2^29, LIMB - 1))

\* the number of bytes of the varint that starts at offset: up to and including
\* the first byte with the high bit clear; 0 when there is none within 8 bytes
VarintLen(data, offset) ==
    LET last == IF offset + 8 < Len(data) THEN offset + 8 ELSE Len(data)
        ends == {j \in (offset + 1)..last : data[j] < 128}
    IN  IF ends = {} THEN 0
        ELSE (CHOOSE j \in ends : \A i \in ends : j <= i) - offset

\* the sum of (b_i & 0x7F) * 128^i over the groups i..k-1 of the varint at offset
RECURSIVE GroupSum(_, _, _, _)
GroupSum(data, offset, i, k) ==
    IF i >= k THEN WZero
    ELSE LET g == data[offset + i + 1] % 128
             term == IF i < 4 THEN W(0, g * 128^i) ELSE W(g * 128^(i - 4), 0)
         IN  WAdd(term, GroupSum(data, offset, i + 1, k))

\* C18: for bytes b_0..b_(k-1) at offset, b_(k-1) the first with the high bit
\* clear, read_varint returns the sum of (b_i & 0x7F) * 128^i and offset + k:
\* it consumes no byte after the terminating one.  On 0x05 it returns (5, 1),
\* on 0xAC 0x02 (300, 2).
C18_VarintValueAndOffset ==
    /\ read_varint(<<5>>, 0) = [value |-> W(0, 5), offset |-> 1]
    /\ read_varint(<<172, 2>>, 0) = [value |-> W(0, 300), offset |-> 2]
    /\ pc = "done" =>
          \A o \in 0..(Len(blob) - 1) :
              LET k == VarintLen(blob, o)
              IN  k > 0 =>
                    read_varint(blob, o) =
                        [value |-> GroupSum(blob, o, 0, k), offset |-> o + k]

\* decode has read the two-byte size hint 0xAC 0x02 at offset 8 and the
\* six-byte first coordinate: the flags come from the one byte at offset 10
C18_Witness ==
    /\ pc = "done"
    /\ Returned
    /\ blob[9] = 172 /\ blob[10] = 2 /\ blob[11] = 4
    /\ VarintLen(blob, 8) = 2
    /\ geom_flags = GroupSum(blob, 10, 0, 1)
    /\ \E o \in 30..(Len(blob) - 1) :
          /\ VarintLen(blob, o) = 6
          /\ x_raw = GroupSum(blob, o, 0, 6)

\* the offsets at which decode reads the consecutive varints of [from, end)
RECURSIVE VarintStarts(_, _, _)
VarintStarts(data, from, end) ==
    IF from >= end THEN {}
    ELSE {from} \cup VarintStarts(data, read_varint(data, from).offset, end)

\* C19: for every byte sequence read_varint consumes as one varint while a
\* geometry is decoded (bytes up to a byte with the high bit clear), the
\* canonical base-128 encoding of the integer returned is exactly the bytes
\* consumed.
C19_VarintRoundTrip ==
    Returned =>
        \A o \in VarintStarts(blob, IF result.type = "Point" THEN 18 ELSE 8,
                              IF result.type = "Point" THEN Len(blob) ELSE pos) :
            VarintLen(blob, o) > 0 =>
                LET r == read_varint(blob, o)
                IN  EncodeVarint(r.value) = SubSeq(blob, o + 1, r.offset)

\* the four bounding-box varints of a complex blob: xmin, ymin, xmax, ymax
BlobBBox ==
    LET xmin == read_varint(blob, SkipVarints(blob, 8, 2))
        ymin == read_varint(blob, xmin.offset)
        xmax == read_varint(blob, ymin.offset)
        ymax == read_varint(blob, xmax.offset)
    IN  [xmin |-> xmin.value, ymin |-> ymin.value,
         xmax |-> xmax.value, ymax |-> ymax.value]

\* C20: every coordinate of a geometry returned by the complex path lies, in
\* fixed-point space, within the box of the blob's four bounding-box varints
\* widened by one unit.
C20_CoordinatesWithinBBox ==
    ReturnedComplex =>
        LET flat == Flatten(PartsOf(result))
            one == W(0, 1)
        IN  \A k \in 1..Len(flat) :
                /\ WGe(flat[k][1].num, WSub(BlobBBox.xmin, one))
                /\ WGe(WAdd(BlobBBox.xmax, one), flat[k][1].num)
                /\ WGe(flat[k][2].num, WSub(BlobBBox.ymin, one))
                /\ WGe(WAdd(BlobBBox.ymax, one), flat[k][2].num)

\* C21: every geometry decode returns is non-empty: it has at least one part
\* and every part has at least one point, also when the accepted structure
\* declares a count of 0 for a part and when the blob is cut short.
C21_GeometryIsNonEmpty ==
    Returned =>
        /\ Len(PartsOf(result)) >= 1
        /\ \A k \in 1..Len(PartsOf(result)) : Len(PartsOf(result)[k]) >= 1

\* the accepted structure declares a second part of 0 points: the part is
\* left out and one part of one point is returned
C21_Witness ==
    /\ ReturnedComplex
    /\ num_parts = 2
    /\ points_per_part = <<W(0, 1), W(0, 0)>>
    /\ Len(PartsOf(result)) = 1
    /\ Len(PartsOf(result)[1]) = 1

RowsDone ==
    SubSeq(gen.returned, 1,
           Len(gen.returned) - Len(gen.cursor)
                             - (IF gen.pc = "decoding" THEN 1 ELSE 0))

\* a row whose blob is NULL or empty, or is refused by decode
RowWithoutGeometry(row) ==
    row.null \/ row.shape = <<>> \/ header_error(row.shape) # NoError

\* C23: read_table yields exactly one Feature per row returned by the query,
\* in row order; a row whose blob is null or empty, or whose decode raises,
\* yields a Feature with geometry None and with attributes and fid populated,
\* and the iteration goes on: the generator ends early only when the table is
\* unknown or its connection was closed, and when it is exhausted every row
\* has its Feature.
C23_OneFeaturePerRow ==
    /\ Len(features) = Len(RowsDone)
    /\ \A i \in 1..Len(features) :
          /\ features[i].fid = <<RowsDone[i].OBJECTID>>
          /\ features[i].attributes = [name |-> RowsDone[i].name]
          /\ features[i].geometry = NoGeometry <=> RowWithoutGeometry(RowsDone[i])
    /\ gen.pc = "exhausted" => RowsDone = gen.returned
    /\ gen.pc = "raised" =>
          gen.error \in {"Table not found", "Cannot operate on a closed database."}

\* a row whose decode raises came first, its Feature has no geometry, and the
\* Feature of the following row has one
C23_Witness ==
    /\ gen.pc = "exhausted"
    /\ Len(features) = 2
    /\ ~gen.returned[1].null /\ gen.returned[1].shape # <<>>
    /\ features[1].geometry = NoGeometry
    /\ features[1].fid = <<1>>
    /\ features[2].geometry # NoGeometry

\* a NULL blob gave a Feature without geometry and the scan went on
C23_WitnessNull ==
    /\ gen.pc = "exhausted"
    /\ Len(features) = 2
    /\ gen.returned[1].null
    /\ features[1].geometry = NoGeometry
    /\ features[2].fid = <<2>>

\* the value the claim gives a parameter: the one of the element when the
\* Definition holds it, else the default
ParsedOr(tag, default) ==
    IF definition.row /\ definition.xml /\ definition[tag] # <<>>
    THEN definition[tag][1]
    ELSE default

\* C24: the coordinate system looked up for a table carries, for each of
\* XOrigin, YOrigin, XYScale, ZOrigin and ZScale, the value parsed from the
\* Definition whenever the Definition holds the element, and the default only
\* when the row or the element cannot be resolved.
C24_ParsedValueWhenPresent ==
    tables.loaded =>
        LET c == tables.list[1].coord_system IN
        /\ c.x_origin = ParsedOr("XOrigin", -20037700)
        /\ c.y_origin = ParsedOr("YOrigin", -30241100)
        /\ c.xy_scale = ParsedOr("XYScale", 10000)
        /\ c.z_origin = ParsedOr("ZOrigin", -100000)
        /\ c.z_scale = ParsedOr("ZScale", 10000)

\* the unsigned 32-bit integer in the 4 bytes after the first `off` bytes
U32At(w, off, be) ==
    LET b == IF be THEN reversed(SubSeq(w, off + 1, off + 4))
                   ELSE SubSeq(w, off + 1, off + 4)
    IN  W(b[4] \div 16, b[1] + 256 * b[2] + 65536 * b[3] + 16777216 * (b[4] % 16))

\* the type code of the standard for each geometry type
CodeOf(type) ==
    CASE type = "Point" -> 1
      [] type = "LineString" -> 2
      [] type = "Polygon" -> 3
      [] type = "MultiPoint" -> 4
      [] type = "MultiLineString" -> 5
      [] type = "MultiPolygon" -> 6

\* the type code with bit 0x80000000 set exactly when the geometry has Z
TypeWord(g) == W(IF has_z(g) THEN 8 ELSE 0, CodeOf(g.type))

\* where the rings that start after `off` bytes end, read from the bytes
RECURSIVE RingsEnd(_, _, _, _, _)
RingsEnd(w, off, be, k, stride) ==
    IF k = 0 THEN off
    ELSE IF off + 4 > Len(w) THEN -1
    ELSE RingsEnd(w, off + 4 + U32At(w, off, be).lo * stride, be, k - 1, stride)

\* where the WKB of a Point, LineString or Polygon that starts after `off`
\* bytes ends, read from the bytes alone; -1 when the bytes are not a
\* complete WKB in the byte order `be`
WkbEnd(w, off, be) ==
    IF off + 5 > Len(w) \/ w[off + 1] # (IF be THEN 0 ELSE 1) THEN -1
    ELSE LET t == U32At(w, off + 1, be)
             stride == IF t.hi = 8 THEN 24 ELSE 16
             end == IF t.lo = 1 THEN off + 5 + stride
                    ELSE IF off + 9 > Len(w) THEN -1
                    ELSE IF t.lo = 2
                    THEN off + 9 + U32At(w, off + 5, be).lo * stride
                    ELSE IF t.lo = 3
                    THEN RingsEnd(w, off + 9, be, U32At(w, off + 5, be).lo, stride)
                    ELSE -1
         IN  IF t.hi \in {0, 8} /\ end <= Len(w) THEN end ELSE -1

\* the components from the k-th on are complete WKBs one after the other,
\* each with the byte-order byte and its own type code, up to the end
RECURSIVE ComponentsFrom(_, _, _, _, _)
ComponentsFrom(w, cs_, be, k, off) ==
    IF k > Len(cs_) THEN off = Len(w)
    ELSE /\ WkbEnd(w, off, be) # -1
         /\ U32At(w, off + 1, be) = TypeWord(cs_[k])
         /\ ComponentsFrom(w, cs_, be, k + 1, WkbEnd(w, off, be))

IsMulti(g) == g.type \in {"MultiPoint", "MultiLineString", "MultiPolygon"}

\* C25: to_wkb output starts with the byte-order byte (1 little-endian, 0
\* when big_endian) and the 32-bit type code in that byte order, 1..6 by
\* geometry type with bit 0x80000000 set exactly when the geometry has Z;
\* every component of a multi-geometry is a complete WKB with its own
\* byte-order byte and type header in the same byte order; a 2D Point is
\* exactly 21 bytes.
C25_WkbHeaderAndComponents ==
    wkb # <<>> =>
        LET g == feature.geometry IN
        /\ Len(wkb) >= 5
        /\ wkb[1] = (IF big_endian THEN 0 ELSE 1)
        /\ U32At(wkb, 1, big_endian) = TypeWord(g)
        /\ IsMulti(g) => ComponentsFrom(wkb, components(g), big_endian, 1, 9)
        /\ (g.type = "Point" /\ g.z = None) => Len(wkb) = 21

\* a MultiPoint of a 2D and a 3D point was written big-endian
C25_Witness ==
    /\ wkb # <<>>
    /\ big_endian
    /\ feature.geometry.type = "MultiPoint"
    /\ Len(feature.geometry.points) = 2
    /\ feature.geometry.points[1].z = None
    /\ feature.geometry.points[2].z # None
    /\ SubSeq(wkb, 1, 5) = <<0, 128, 0, 0, 4>>

\* a 2D Point was written little-endian in 21 bytes
C25_WitnessPoint ==
    /\ wkb # <<>>
    /\ ~big_endian
    /\ feature.geometry = GPoint(1, 2, None)
    /\ SubSeq(wkb, 1, 5) = <<1, 1, 0, 0, 0>>
    /\ Len(wkb) = 21

\* C26: feature_to_geojson returns an object of type 'Feature' whose
\* 'properties' are the feature's attributes, whose 'geometry' is null exactly
\* when the feature has no geometry and otherwise the GeoJSON geometry of it,
\* and which has an 'id' member, equal to fid, if and only if fid is not None.
C26_FeatureObject ==
    geojson # NoOutput =>
        /\ geojson.type = "Feature"
        /\ geojson.properties = feature.attributes
        /\ geojson.geometry = JsonNull <=> feature.geometry = NoGeometry
        /\ feature.geometry # NoGeometry =>
              geojson.geometry = to_geojson_geometry(feature.geometry, to_wgs84)
        /\ "id" \in DOMAIN geojson <=> feature.fid # None
        /\ feature.fid # None => geojson.id = feature.fid[1]

\* min(a, b)
Min(a, b) == IF a < b THEN a ELSE b

\* C27: for every table and every non-negative integer n,
\* read_table(table, limit=n) yields at most n features, and min(n, number of
\* rows) of them when it is exhausted.
C27_AtMostLimitFeatures ==
    gen.limit # <<>> =>
        /\ Len(features) <= gen.limit[1]
        /\ gen.pc = "exhausted" => Len(features) = Min(gen.limit[1], Len(rows))

FourErrors ==
    {"Blob too short", "Invalid magic header",
     "Empty geometry (point count = 0)", "Could not find coordinate start"}

C28_WitnessReturned ==
    /\ pc = "done"
    /\ err = NoError
    /\ result # NoGeometry
    /\ pos = Len(blob)
    /\ WLt(ToWide(iter), points_to_read)

\* C29: decode never produces Z ordinates, whatever the high bits of the
\* geometry flags: a returned Point has z None, a returned LineString or
\* Polygon and every member of a returned MultiLineString has z_values None,
\* so has_z is false.
C29_NoZ ==
    Returned =>
        /\ ~has_z(result)
        /\ result.type = "Point" => result.z = None
        /\ result.type \in {"LineString", "Polygon"} => result.z_values = None
        /\ result.type = "MultiLineString" =>
              \A k \in 1..Len(result.lines) : result.lines[k].z_values = None

\* a polygon was returned for flags 0x88, which have a bit above the low four
C29_Witness ==
    /\ ReturnedComplex
    /\ BlobFlags = W(0, 136)
    /\ result.type = "Polygon"
    /\ result.z_values = None

\* a line geometry was returned for flags with bits above the low eight
C29_WitnessLines ==
    /\ ReturnedComplex
    /\ BlobFlags.lo > 255
    /\ result.type \in {"LineString", "MultiLineString"}
    /\ ~has_z(result)

\* a step of an operation other than close
OtherThanClose ==
    Tables \/ Execute \/ ReadTable \/ StartTable \/ FetchRow \/ YieldFeature \/ Next

\* a call that needs the database: the loading of the tables, execute, and
\* the body of read_table for a table that exists
NeedsConnection ==
    \/ Tables /\ ~tables.loaded
    \/ Execute
    \/ StartTable /\ gen.name = "Rivers"

\* C30: a GeoDatabase holds at most one SQLite connection at any time, over
\* any sequence of tables, get_table, read_table, execute and close: the
\* connection is opened during construction and reused by every operation;
\* close() closes it and resets it to none, and a second close() is a no-op;
\* a tables-loading, read_table or execute call made after close() opens a
\* new connection instead of failing, which stays open until the next close().
C30_AtMostOneConnection ==
    /\ conn = 1 /\ open_conns = {1}
    /\ [](/\ Cardinality(open_conns) <= 1
          /\ open_conns = (IF conn = 0 THEN {} ELSE {conn}))
    /\ [][(OtherThanClose /\ conn # 0) =>
              (conn' = conn /\ open_conns' = open_conns /\ opened' = opened)]_vars
    /\ [][Close => (conn' = 0 /\ open_conns' = {} /\ opened' = opened)]_vars
    /\ [][(Close /\ conn = 0) =>
              UNCHANGED <<conn, open_conns, opened, tables, decoders, gen,
                          features>>]_vars
    /\ [][(NeedsConnection /\ conn = 0) =>
              (/\ conn' = opened + 1
               /\ open_conns' = {conn'}
               /\ opened' = opened + 1
               /\ last_op'.ok)]_vars

\* after two close() calls a read_table opened the third connection and has
\* yielded a feature over it
C30_Witness ==
    /\ conn = 3
    /\ open_conns = {3}
    /\ opened = 3
    /\ gen.pc = "rows"
    /\ gen.conn = 3
    /\ Len(features) = 1
====
